---- MODULE Spec2Model ----
(***************************************************************************)
(* A model of the checklist crate: typed values (value.rs), notices,       *)
(* checkers, the mode wrapper and Flatten (check.rs), and the check list   *)
(* with its commits (commit.rs).                                           *)
(*                                                                         *)
(* Texts (Rust Strings that the code parses or compares) are sequences of  *)
(* one-character strings.  Messages are opaque payloads and are TLA+       *)
(* strings.  A Result is a record with a tag: "Ok", "Err" (InvalidKind) or *)
(* "Panic" (an unwrap() that fails).                                       *)
(***************************************************************************)
EXTENDS Integers, Sequences, FiniteSets

\* Longest input vector (of pairs, of rules) the caller assembles.
MaxLen == 3
\* Numbers submitted range over -MaxNum .. MaxNum.
MaxNum == 6

VARIABLES
    lists,      \* the Vec<(String, T)> the caller assembles for into_checklist
    registry,   \* what into_checklist returned: NotBuilt, or a Result
    items,      \* the Vec<T> whose iterator the caller hands to into_flat
    flat,       \* what into_flat returned: NotBuilt, or a Result
    last,       \* the last call made and what it returned
    na, nb, nc  \* three Notices handed to the comparison

vars == <<lists, registry, items, flat, last, na, nb, nc>>

----------------------------------------------------------------------------
(* value.rs *)

Number == "Number"
Literal == "Literal"
ValueKind == {Number, Literal}

Digit == <<"0", "1", "2", "3", "4", "5", "6", "7", "8", "9">>

IsDigit(c) == \E i \in 1..10 : Digit[i] = c

DigitValue(c) == (CHOOSE i \in 1..10 : Digit[i] = c) - 1

RECURSIVE NatToString(_)
\* the decimal digits of n, most significant first
NatToString(n) ==
    IF n < 10 THEN <<Digit[n + 1]>>
    ELSE NatToString(n \div 10) \o <<Digit[(n % 10) + 1]>>

\* i32::to_string / u32::to_string
IntToString(i) == IF i < 0 THEN <<"-">> \o NatToString(-i) ELSE NatToString(i)

\* From<i32> / From<u32> for Value
FromInt(i) == [inner |-> IntToString(i), kind |-> Number]

\* From<&str> for Value
FromStr(s) == [inner |-> s, kind |-> Literal]

is_kind_of(value, kind) == value.kind = kind

\* ToString for Value
to_string(value) == value.inner

RECURSIVE DigitsValue(_)
DigitsValue(s) ==
    IF Len(s) = 0 THEN 0
    ELSE 10 * DigitsValue(SubSeq(s, 1, Len(s) - 1)) + DigitValue(s[Len(s)])

AllDigits(s) == Len(s) > 0 /\ \A i \in 1..Len(s) : IsDigit(s[i])

\* TryFrom<&Value> for f64: str::parse::<f64> on the text, whatever the kind.
\* Of the f64 grammar the texts of the model reach an optional sign followed
\* by decimal digits; every other text of the model's alphabet is an error.
TryIntoF64(value) ==
    LET s == value.inner
        body == IF Len(s) > 0 /\ s[1] \in {"-", "+"} THEN Tail(s) ELSE s
    IN  IF AllDigits(body)
        THEN [ok |-> TRUE,
              v |-> IF s[1] = "-" THEN -DigitsValue(body) ELSE DigitsValue(body)]
        ELSE [ok |-> FALSE, v |-> 0]

----------------------------------------------------------------------------
(* check.rs: Notice and its order *)

Clear == [tag |-> "Clear", msg |-> ""]
Attention(m) == [tag |-> "Attention", msg |-> m]
Error(m) == [tag |-> "Error", msg |-> m]

\* partial_cmp as #[derive(PartialOrd)] would order it: the messages count
partial_cmp_derived(a, b) ==
    CASE a.tag = "Clear" /\ b.tag = "Clear" -> "Equal"
      [] a.tag = "Clear" -> "Less"
      [] b.tag = "Clear" -> "Greater"
      [] a.tag = "Error" /\ b.tag = "Attention" -> "Greater"
      [] a.tag = "Attention" /\ b.tag = "Error" -> "Less"
      [] OTHER -> IF a.msg = b.msg THEN "Equal"
                  ELSE IF a.msg = "caution" THEN "Less" ELSE "Greater"

\* impl PartialOrd for Notice, arm by arm
partial_cmp(a, b) ==
    CASE a.tag = "Clear" /\ b.tag = "Clear" -> "Equal"
      [] a.tag = "Clear" -> "Less"
      [] b.tag = "Clear" -> "Greater"
      [] a.tag = "Error" /\ b.tag = "Attention" -> "Greater"
      [] a.tag = "Attention" /\ b.tag = "Error" -> "Less"
      [] OTHER -> "Equal"

\* impl Ord for Notice
cmp(a, b) == partial_cmp(a, b)

----------------------------------------------------------------------------
(* check.rs: results *)

Ok(n) == [tag |-> "Ok", notice |-> n]
InvalidKind == [tag |-> "Err", notice |-> Clear]
Panic == [tag |-> "Panic", notice |-> Clear]

----------------------------------------------------------------------------
(* check.rs: Checkers *)

Any == [kind |-> "Any"]
Exact(v, msg) == [kind |-> "Exact", v |-> v, msg |-> msg]
Regex(pattern, msg) == [kind |-> "Regex", pattern |-> pattern, msg |-> msg]
Between(from, to, msg) == [kind |-> "Between", from |-> from, to |-> to, msg |-> msg]
\* A boxed user checker: the list it expects and what it answers to a value
\* of each kind.
Custom(expects, onNumber, onLiteral) ==
    [kind |-> "Custom", expects |-> expects,
     onNumber |-> onNumber, onLiteral |-> onLiteral]

\* regex::Regex::is_match for the two patterns of the model
is_match(pattern, text) ==
    CASE pattern = "^[0-9]+$" -> AllDigits(text)
      [] pattern = "^abc" ->
            Len(text) >= 3 /\ SubSeq(text, 1, 3) = <<"a", "b", "c">>
      [] OTHER -> FALSE

\* the Between arm with the upper bound exclusive
BetweenCheck_exclusive(c, value) ==
    IF is_kind_of(value, Number)
    THEN LET p == TryIntoF64(value)
         IN  IF ~p.ok THEN Panic
             ELSE IF c.from <= p.v /\ p.v < c.to
                  THEN Ok(Clear)
                  ELSE Ok(Attention(c.msg))
    ELSE InvalidKind

\* the Between arm of Checkers::check
BetweenCheck(c, value) ==
    IF is_kind_of(value, Number)
    THEN LET p == TryIntoF64(value)
         IN  IF ~p.ok THEN Panic
             ELSE IF c.from <= p.v /\ p.v <= c.to
                  THEN Ok(Clear)
                  ELSE Ok(Attention(c.msg))
    ELSE InvalidKind

\* impl Checker for Checkers: check
CheckersCheck(c, value) ==
    CASE c.kind = "Any" -> Ok(Clear)
      [] c.kind = "Exact" ->
            IF c.v = to_string(value) THEN Ok(Clear) ELSE Ok(Attention(c.msg))
      [] c.kind = "Regex" ->
            IF is_match(c.pattern, to_string(value))
            THEN Ok(Clear) ELSE Ok(Attention(c.msg))
      [] c.kind = "Between" -> BetweenCheck(c, value)
      [] c.kind = "Custom" ->
            IF is_kind_of(value, Number) THEN c.onNumber ELSE c.onLiteral

\* expecting with Between listed like the other built-in kinds
CheckersExpecting_both(c) ==
    CASE c.kind \in {"Any", "Exact", "Regex", "Between"} -> <<Number, Literal>>
      [] c.kind = "Custom" -> c.expects

\* impl Checker for Checkers: expecting
CheckersExpecting(c) ==
    CASE c.kind \in {"Any", "Exact", "Regex"} -> <<Number, Literal>>
      [] c.kind = "Between" -> <<Number>>
      [] c.kind = "Custom" -> c.expects

----------------------------------------------------------------------------
(* check.rs: CheckerMode *)

into_attention(c) == [mode |-> "Attention", c |-> c]
into_error(c) == [mode |-> "Error", c |-> c]

\* check with the Error mode's Attention arm left as Attention
ModeCheck_noescalation(m, value) ==
    LET r == CheckersCheck(m.c, value)
    IN  IF r.tag # "Ok" THEN r ELSE Ok(r.notice)

\* impl Checker for CheckerMode: check.  The ? returns the base failure.
ModeCheck(m, value) ==
    LET r == CheckersCheck(m.c, value)
    IN  IF r.tag # "Ok" THEN r
        ELSE IF m.mode = "Attention" THEN Ok(r.notice)
        ELSE IF r.notice.tag = "Attention" THEN Ok(Error(r.notice.msg))
        ELSE Ok(r.notice)

\* impl Checker for CheckerMode: expecting
ModeExpecting(m) == CheckersExpecting(m.c)

----------------------------------------------------------------------------
(* check.rs: Flatten *)

\* itertools all_equal
all_equal(s) == \A i, j \in 1..Len(s) : s[i] = s[j]

\* Flatten::new: collect_vec, then the all_equal test on the expecting lists
FlattenNew(v) ==
    IF ~all_equal([i \in 1..Len(v) |-> ModeExpecting(v[i])])
    THEN [tag |-> "Err", rules |-> <<>>]
    ELSE [tag |-> "Ok", rules |-> v]

\* IntoFlat::into_flat
into_flat(v) == FlattenNew(v)

\* map(check).collect::<Result<Vec<Notice>, CheckError>>(): the checks run in
\* order and stop at the first that does not return a Notice.  evals counts
\* the member checks that ran.
Collect(rules, value) ==
    LET res == [i \in 1..Len(rules) |-> ModeCheck(rules[i], value)]
        bad == {i \in 1..Len(rules) : res[i].tag # "Ok"}
    IN  IF bad = {}
        THEN [tag |-> "Ok", notices |-> [i \in 1..Len(rules) |-> res[i].notice],
              evals |-> Len(rules)]
        ELSE LET k == CHOOSE i \in bad : \A j \in bad : i <= j
             IN  [tag |-> res[k].tag, notices |-> <<>>, evals |-> k]

RECURSIVE Insert(_, _)
\* one step of the stable insertion sort: x moves left past the greater ones
Insert(s, x) ==
    IF Len(s) = 0 \/ cmp(s[Len(s)], x) # "Greater"
    THEN Append(s, x)
    ELSE Append(Insert(SubSeq(s, 1, Len(s) - 1), x), s[Len(s)])

\* the sort left out
sort_missing(s) == s

RECURSIVE sort(_)
\* slice::sort, a stable sort by Ord
sort(s) ==
    IF Len(s) = 0 THEN <<>>
    ELSE Insert(sort(SubSeq(s, 1, Len(s) - 1)), s[Len(s)])

\* the reverse left out
reverse_missing(s) == s

\* slice::reverse
reverse(s) == [i \in 1..Len(s) |-> s[Len(s) + 1 - i]]

\* the for loop of Flatten::check: the first Notice that is not Clear
FirstNotClear(res) ==
    LET hit == {i \in 1..Len(res) : res[i].tag # "Clear"}
    IN  IF hit = {} THEN Clear
        ELSE res[CHOOSE i \in hit : \A j \in hit : i <= j]

\* impl Checker for Flatten: check, with the count of member checks run
FlattenCheck(rules, value) ==
    LET c == Collect(rules, value)
    IN  IF c.tag # "Ok"
        THEN [tag |-> c.tag, notice |-> Clear, evals |-> c.evals]
        ELSE [tag |-> "Ok", notice |-> FirstNotClear(reverse(sort(c.notices))),
              evals |-> c.evals]

\* impl Checker for Flatten: expecting; first().unwrap() panics on no rule
FlattenExpecting(rules) ==
    IF Len(rules) = 0 THEN [tag |-> "Panic", kinds |-> <<>>]
    ELSE [tag |-> "Ok", kinds |-> ModeExpecting(rules[1])]

----------------------------------------------------------------------------
(* commit.rs *)

RECURSIVE group_by(_)
\* itertools group_by on the field name: runs of consecutive equal keys
group_by(l) ==
    IF Len(l) = 0 THEN <<>>
    ELSE LET g == group_by(SubSeq(l, 1, Len(l) - 1))
             p == l[Len(l)]
         IN  IF Len(g) > 0 /\ g[Len(g)].key = p[1]
             THEN [g EXCEPT ![Len(g)].rules = Append(@, p[2])]
             ELSE Append(g, [key |-> p[1], rules |-> <<p[2]>>])

\* HashMap::insert
Insert_(map, k, v) == [x \in DOMAIN map \cup {k} |-> IF x = k THEN v ELSE map[x]]

RECURSIVE InsertGroups(_, _, _)
\* the for loop of into_checklist from group i on; the ? leaves at the first
\* group that into_flat refuses
InsertGroups(g, i, hashmap) ==
    IF i > Len(g) THEN [tag |-> "Ok", map |-> hashmap]
    ELSE LET f == into_flat(g[i].rules)
         IN  IF f.tag # "Ok" THEN [tag |-> "Err", map |-> hashmap]
             ELSE InsertGroups(g, i + 1, Insert_(hashmap, g[i].key, f.rules))

EmptyMap == [x \in {} |-> <<>>]

\* IntoCheckList::into_checklist
into_checklist(l) ==
    LET r == InsertGroups(group_by(l), 1, EmptyMap)
    IN  IF r.tag = "Ok" THEN r ELSE [tag |-> "Err", map |-> EmptyMap]

\* commit with a key that is not registered reported as InvalidKind
CommitOf_strict(map, key, value) ==
    IF key \notin DOMAIN map
    THEN [tag |-> "Err", some |-> FALSE, key |-> "", value |-> value,
          notice |-> Clear, evals |-> 0]
    ELSE LET r == FlattenCheck(map[key], value)
         IN  IF r.tag # "Ok"
             THEN [tag |-> r.tag, some |-> FALSE, key |-> "", value |-> value,
                   notice |-> Clear, evals |-> r.evals]
             ELSE [tag |-> "Ok", some |-> TRUE, key |-> key, value |-> value,
                   notice |-> r.notice, evals |-> r.evals]

\* CheckList::commit
CommitOf(map, key, value) ==
    IF key \notin DOMAIN map
    THEN [tag |-> "Ok", some |-> FALSE, key |-> "", value |-> value,
          notice |-> Clear, evals |-> 0]
    ELSE LET r == FlattenCheck(map[key], value)
         IN  IF r.tag # "Ok"
             THEN [tag |-> r.tag, some |-> FALSE, key |-> "", value |-> value,
                   notice |-> Clear, evals |-> r.evals]
             ELSE [tag |-> "Ok", some |-> TRUE, key |-> key, value |-> value,
                   notice |-> r.notice, evals |-> r.evals]

\* CheckList::items
ItemsOf(map) == [k \in DOMAIN map |-> FlattenExpecting(map[k])]

----------------------------------------------------------------------------
(* The inputs the callers draw from *)

Msgs == {"caution", "error"}

Notices == {Clear} \cup {Attention(m) : m \in Msgs} \cup {Error(m) : m \in Msgs}

\* texts over the alphabet a b c d 0..9 -
Texts == {<<"a", "b", "c">>, <<"a", "b", "c", "d">>, <<"3">>, <<"-", "2">>, <<>>}

Numbers == {FromInt(i) : i \in -MaxNum..MaxNum}
Literals == {FromStr(s) : s \in Texts}
Values == Numbers \cup Literals

Bounds == {-5, -2, 2, 5}

Outcomes == {Ok(n) : n \in {Clear, Attention("caution"), Error("error")}}
                \cup {InvalidKind}

\* every Checkers the single-rule calls are made on
BasePool ==
    {Any}
      \cup {Exact(<<"a", "b", "c">>, "caution"), Exact(<<"3">>, "error")}
      \cup {Regex("^[0-9]+$", "caution"), Regex("^abc", "error")}
      \cup {Between(f, t, m) : f \in Bounds, t \in Bounds, m \in Msgs}
      \cup {Custom(e, n, l) : e \in {<<Number>>, <<Literal>>, <<Number, Literal>>},
                              n \in Outcomes, l \in Outcomes}

ModePool == {into_attention(c) : c \in BasePool} \cup {into_error(c) : c \in BasePool}

\* the rules of the check lists: the built-in kinds, in both modes
RulePool ==
    {into_attention(Between(-2, 2, "caution")),
     into_error(Between(-5, 5, "error")),
     into_error(Between(-2, 2, "error")),
     into_attention(Exact(<<"3">>, "caution")),
     into_error(Regex("^abc", "error")),
     into_attention(Any)}

\* the rules handed to into_flat: built-in and boxed ones
FlatPool ==
    {into_attention(Between(-2, 2, "caution")),
     into_error(Between(-5, 5, "error")),
     into_attention(Exact(<<"3">>, "error")),
     into_attention(Custom(<<Number>>, Ok(Error("caution")), InvalidKind)),
     into_error(Custom(<<Number>>, Ok(Attention("error")), Ok(Clear))),
     into_attention(Custom(<<Number, Literal>>, Ok(Clear), Ok(Error("error"))))}

Fields == {"A", "B"}
Keys == Fields \cup {"Z"}

NotBuilt == [tag |-> "NotBuilt"]
NoCall == [op |-> "none"]

----------------------------------------------------------------------------
(* The calls *)

Init ==
    /\ lists = <<>>
    /\ registry = NotBuilt
    /\ items = <<>>
    /\ flat = NotBuilt
    /\ last = NoCall
    /\ na = Clear /\ nb = Clear /\ nc = Clear

\* the caller pushes one (field name, rule) pair on the vector
Push(k, r) ==
    /\ registry = NotBuilt
    /\ Len(lists) < MaxLen
    /\ lists' = Append(lists, <<k, r>>)
    /\ UNCHANGED <<registry, items, flat, last, na, nb, nc>>

\* lists.into_checklist(): the vector is consumed
IntoChecklist ==
    /\ registry = NotBuilt
    /\ registry' = into_checklist(lists)
    /\ UNCHANGED <<lists, items, flat, last, na, nb, nc>>

\* map.commit(key, value)
Commit(key, value) ==
    /\ last = NoCall
    /\ registry.tag = "Ok"
    /\ last' = [op |-> "commit", key |-> key, value |-> value,
                result |-> CommitOf(registry.map, key, value)]
    /\ UNCHANGED <<lists, registry, items, flat, na, nb, nc>>

\* map.items()
Items ==
    /\ last = NoCall
    /\ registry.tag = "Ok"
    /\ last' = [op |-> "items", result |-> ItemsOf(registry.map)]
    /\ UNCHANGED <<lists, registry, items, flat, na, nb, nc>>

\* the caller drops the result of the last call; the next call is independent
Drop ==
    /\ last # NoCall
    /\ last' = NoCall
    /\ UNCHANGED <<lists, registry, items, flat, na, nb, nc>>

Next ==
    \/ \E k \in Fields, r \in RulePool : Push(k, r)
    \/ IntoChecklist
    \/ \E key \in Keys, value \in Values : Commit(key, value)
    \/ Items
    \/ Drop

Spec == Init /\ [][Next]_vars

\* the Between rules of a field with thresholds: Attention mode with one
\* message, Error mode with the other, every pair of bounds
ThresholdPool ==
    {into_attention(Between(f, t, "caution")) : f \in Bounds, t \in Bounds}
      \cup {into_error(Between(f, t, "error")) : f \in Bounds, t \in Bounds}

\* the caller pushes one of the two rules of field "B"
PushThreshold(r) ==
    /\ registry = NotBuilt
    /\ Len(lists) < 2
    /\ lists' = Append(lists, <<"B", r>>)
    /\ UNCHANGED <<registry, items, flat, last, na, nb, nc>>

NextThresholds ==
    \/ \E r \in ThresholdPool : PushThreshold(r)
    \/ IntoChecklist
    \/ \E value \in Numbers : Commit("B", value)
    \/ Drop

SpecThresholds == Init /\ [][NextThresholds]_vars

\* the caller pushes one rule on the vector handed to into_flat
PushItem(r) ==
    /\ flat = NotBuilt
    /\ Len(items) < MaxLen
    /\ items' = Append(items, r)
    /\ UNCHANGED <<lists, registry, flat, last, na, nb, nc>>

\* items.into_iter().into_flat()
IntoFlat ==
    /\ flat = NotBuilt
    /\ flat' = into_flat(items)
    /\ UNCHANGED <<lists, registry, items, last, na, nb, nc>>

\* flat.check(&value)
FlatCheck(value) ==
    /\ last = NoCall
    /\ flat.tag = "Ok"
    /\ last' = [op |-> "Flatten::check", value |-> value,
                result |-> FlattenCheck(flat.rules, value)]
    /\ UNCHANGED <<lists, registry, items, flat, na, nb, nc>>

\* flat.expecting()
FlatExpecting ==
    /\ last = NoCall
    /\ flat.tag = "Ok"
    /\ last' = [op |-> "Flatten::expecting", result |-> FlattenExpecting(flat.rules)]
    /\ UNCHANGED <<lists, registry, items, flat, na, nb, nc>>

NextFlat ==
    \/ \E r \in FlatPool : PushItem(r)
    \/ IntoFlat
    \/ \E value \in Values : FlatCheck(value)
    \/ FlatExpecting
    \/ Drop

SpecFlat == Init /\ [][NextFlat]_vars

\* c.check(&value) on a Checkers
CheckBase(c, value) ==
    /\ last = NoCall
    /\ last' = [op |-> "Checkers::check", rule |-> c, value |-> value,
                result |-> CheckersCheck(c, value)]
    /\ UNCHANGED <<lists, registry, items, flat, na, nb, nc>>

\* c.expecting() on a Checkers
ExpectBase(c) ==
    /\ last = NoCall
    /\ last' = [op |-> "Checkers::expecting", rule |-> c,
                result |-> CheckersExpecting(c)]
    /\ UNCHANGED <<lists, registry, items, flat, na, nb, nc>>

\* m.check(&value) on a CheckerMode
CheckMode(m, value) ==
    /\ last = NoCall
    /\ last' = [op |-> "CheckerMode::check", rule |-> m, value |-> value,
                result |-> ModeCheck(m, value)]
    /\ UNCHANGED <<lists, registry, items, flat, na, nb, nc>>

\* m.expecting() on a CheckerMode
ExpectMode(m) ==
    /\ last = NoCall
    /\ last' = [op |-> "CheckerMode::expecting", rule |-> m,
                result |-> ModeExpecting(m)]
    /\ UNCHANGED <<lists, registry, items, flat, na, nb, nc>>

NextRule ==
    \/ \E c \in BasePool, value \in Values : CheckBase(c, value)
    \/ \E c \in BasePool : ExpectBase(c)
    \/ \E m \in ModePool, value \in Values : CheckMode(m, value)
    \/ \E m \in ModePool : ExpectMode(m)
    \/ Drop

SpecRule == Init /\ [][NextRule]_vars

\* a.cmp(&b), b.cmp(&c), a.cmp(&c) on three Notices
Compare(a, b, c) ==
    /\ last = NoCall
    /\ na' = a /\ nb' = b /\ nc' = c
    /\ last' = [op |-> "cmp", ab |-> cmp(a, b), ba |-> cmp(b, a),
                bc |-> cmp(b, c), ac |-> cmp(a, c), aa |-> cmp(a, a)]
    /\ UNCHANGED <<lists, registry, items, flat>>

\* the caller drops the three Notices and the orderings
DropOrd ==
    /\ last # NoCall
    /\ last' = NoCall
    /\ na' = Clear /\ nb' = Clear /\ nc' = Clear
    /\ UNCHANGED <<lists, registry, items, flat>>

NextOrd ==
    \/ \E a \in Notices, b \in Notices, c \in Notices : Compare(a, b, c)
    \/ DropOrd

SpecOrd == Init /\ [][NextOrd]_vars

----------------------------------------------------------------------------
(* The claims *)

\* the severity of a Notice under Clear < Attention < Error
Severity(n) == CASE n.tag = "Clear" -> 0 [] n.tag = "Attention" -> 1 [] n.tag = "Error" -> 2

\* the integer a Number value was made from
NumberOf(value) == CHOOSE i \in -MaxNum..MaxNum : FromInt(i) = value

\* the rules the input pairs with field name k, in input order
RulesOf(l, k) ==
    LET sel == SelectSeq(l, LAMBDA p : p[1] = k)
    IN  [i \in 1..Len(sel) |-> sel[i][2]]

\* what each member of the Flatten answers to the value of the last call
MemberResults == [i \in 1..Len(flat.rules) |-> ModeCheck(flat.rules[i], last.value)]

\* C1: when Flatten::check runs on a non-empty Flatten whose members all
\* return a Notice, it returns a Notice whose severity is the maximum of the
\* members' severities and whose message is that of a member at that
\* severity; when every member returns Clear, it returns Clear.
C1_FlattenMax ==
    (/\ last.op = "Flatten::check"
     /\ Len(flat.rules) > 0
     /\ \A i \in 1..Len(flat.rules) : MemberResults[i].tag = "Ok")
    => /\ last.result.tag = "Ok"
       /\ \A i \in 1..Len(flat.rules) :
            Severity(MemberResults[i].notice) <= Severity(last.result.notice)
       /\ \E i \in 1..Len(flat.rules) : MemberResults[i].notice = last.result.notice
       /\ (\A i \in 1..Len(flat.rules) : MemberResults[i].notice = Clear)
            => last.result.notice = Clear

\* a check of three members that answer Error, Attention and Error, with
\* different messages among the Errors
C1_Witness ==
    /\ last.op = "Flatten::check"
    /\ Len(flat.rules) = 3
    /\ \A i \in 1..3 : MemberResults[i].tag = "Ok"
    /\ MemberResults[1].notice = Error("caution")
    /\ MemberResults[2].notice.tag = "Attention"
    /\ MemberResults[3].notice = Error("error")
    /\ last.result.notice.tag = "Error"

\* C2: the Flatten stored for a field name holds every rule the input pairs
\* with that name, in input order, adjacent in the input or not.
C2_GroupsWholeInput ==
    registry.tag = "Ok"
    => \A k \in Fields :
         RulesOf(lists, k) # <<>>
         => k \in DOMAIN registry.map /\ registry.map[k] = RulesOf(lists, k)

\* two pairs of the input carry the same field name and rules whose
\* expecting lists differ
SignaturesDiffer(l) ==
    \E i, j \in 1..Len(l) :
        l[i][1] = l[j][1] /\ ModeExpecting(l[i][2]) # ModeExpecting(l[j][2])

\* C3: into_checklist fails with FlattenError::InvalidKind exactly when two
\* pairs of the input carry the same field name and rules whose expecting
\* lists differ, wherever they stand in the input.
C3_SignatureStrict ==
    registry # NotBuilt => (registry.tag = "Err" <=> SignaturesDiffer(lists))

\* C4: CheckerMode::check returns a base InvalidKind as InvalidKind; in Error
\* mode it turns Attention(m) into Error(m) and returns Clear and Error(m)
\* as they are; in Attention mode it returns the base Notice unchanged; and
\* CheckerMode::expecting is the base rule's expecting.
C4_ModeWrapper ==
    /\ last.op = "CheckerMode::check"
       => LET b == CheckersCheck(last.rule.c, last.value)
              r == last.result
          IN  /\ b.tag = "Err" => r = InvalidKind
              /\ (b.tag = "Ok" /\ last.rule.mode = "Attention") => r = b
              /\ (b.tag = "Ok" /\ last.rule.mode = "Error")
                 => /\ b.notice.tag = "Attention" => r = Ok(Error(b.notice.msg))
                    /\ b.notice.tag = "Clear" => r = Ok(Clear)
                    /\ b.notice.tag = "Error" => r = b
    /\ last.op = "CheckerMode::expecting"
       => last.result = CheckersExpecting(last.rule.c)

\* an Error-mode rule whose base answers Attention has answered Error with
\* the base's message
C4_Witness ==
    /\ last.op = "CheckerMode::check"
    /\ last.rule.mode = "Error"
    /\ CheckersCheck(last.rule.c, last.value) = Ok(Attention("caution"))
    /\ last.result = Ok(Error("caution"))

\* C5: commit on a field name that is not a key of the registry returns
\* Ok(None) and runs no rule; commit on a registered field name returns a
\* Commit holding the submitted field name and value, or InvalidKind.
C5_KeyExact ==
    last.op = "commit"
    => LET r == last.result
       IN  IF last.key \notin DOMAIN registry.map
           THEN r.tag = "Ok" /\ ~r.some /\ r.evals = 0
           ELSE \/ r.tag = "Ok" /\ r.some /\ r.key = last.key /\ r.value = last.value
                \/ r.tag = "Err"

\* a commit on a field name that the non-empty registry does not hold
C5_Witness ==
    /\ last.op = "commit"
    /\ DOMAIN registry.map = {"A", "B"}
    /\ last.key = "Z"
    /\ last.result.tag = "Ok" /\ ~last.result.some

\* C6: Between(from, to, msg) on a Number v returns Clear when
\* from <= v <= to and Attention(msg) otherwise; on a Literal it fails with
\* InvalidKind whatever the text.
C6_BetweenInclusive ==
    (last.op = "Checkers::check" /\ last.rule.kind = "Between")
    => IF last.value.kind = Number
       THEN LET v == NumberOf(last.value)
            IN  last.result =
                   IF last.rule.from <= v /\ v <= last.rule.to
                   THEN Ok(Clear) ELSE Ok(Attention(last.rule.msg))
       ELSE last.result = InvalidKind

\* Between on the Number equal to its upper bound has answered Clear
C6_Witness ==
    /\ last.op = "Checkers::check"
    /\ last.rule.kind = "Between"
    /\ last.rule.from < last.rule.to
    /\ last.value = FromInt(last.rule.to)
    /\ last.result = Ok(Clear)

\* C7: the comparison of Notices is reflexive, antisymmetric up to severity,
\* transitive and total; Clear is below every Attention and Error, every
\* Attention is below every Error, and two Notices of the same severity
\* compare Equal whatever their messages.
C7_TotalOrder ==
    last.op = "cmp"
    => /\ last.aa = "Equal"
       /\ (last.ab = "Less") <=> (last.ba = "Greater")
       /\ (last.ab = "Equal") <=> (last.ba = "Equal")
       /\ (last.ab = "Equal") <=> (na.tag = nb.tag)
       /\ (last.ab # "Greater" /\ last.bc # "Greater") => last.ac # "Greater"
       /\ last.ab # "Greater" \/ last.ba # "Greater"
       /\ (Severity(na) < Severity(nb)) <=> (last.ab = "Less")

\* two Attentions with different messages have compared Equal
C7_Witness ==
    /\ last.op = "cmp"
    /\ na = Attention("caution") /\ nb = Attention("error") /\ nc = Error("error")
    /\ last.ab = "Equal" /\ last.bc = "Less"

\* the Flatten is an Attention-mode Between(a1, b1) and an Error-mode
\* Between(a2, b2), in either order, with a2 <= a1 <= b1 <= b2
TwoThresholds(rules, att, err) ==
    /\ Len(rules) = 2
    /\ {att, err} = {1, 2}
    /\ rules[att].mode = "Attention" /\ rules[att].c.kind = "Between"
    /\ rules[err].mode = "Error" /\ rules[err].c.kind = "Between"
    /\ rules[err].c.from <= rules[att].c.from
    /\ rules[att].c.from <= rules[att].c.to
    /\ rules[att].c.to <= rules[err].c.to

\* C8: for a field registered with an Attention-mode Between(a1, b1, m1) and
\* an Error-mode Between(a2, b2, m2), a2 <= a1 <= b1 <= b2, in either order,
\* commit of a Number v holds Clear when v is in [a1, b1], Attention(m1) when
\* v is outside [a1, b1] and in [a2, b2], and Error(m2) when v is outside
\* [a2, b2].
C8_TwoThresholds ==
    (/\ last.op = "commit"
     /\ last.key \in DOMAIN registry.map
     /\ last.value.kind = Number)
    => \A att, err \in {1, 2} :
         TwoThresholds(registry.map[last.key], att, err)
         => LET v == NumberOf(last.value)
                a == registry.map[last.key][att].c
                e == registry.map[last.key][err].c
            IN  /\ last.result.tag = "Ok" /\ last.result.some
                /\ last.result.notice =
                      IF a.from <= v /\ v <= a.to THEN Clear
                      ELSE IF e.from <= v /\ v <= e.to THEN Attention(a.msg)
                      ELSE Error(e.msg)

\* the Error-mode rule came first in the input and the Number lies outside
\* both ranges: the commit holds the Error
C8_Witness ==
    /\ last.op = "commit"
    /\ last.key \in DOMAIN registry.map
    /\ TwoThresholds(registry.map[last.key], 2, 1)
    /\ registry.map[last.key][1].c.from < registry.map[last.key][2].c.from
    /\ last.value = FromInt(-6)
    /\ last.result.notice = Error("error")

\* C9: every Flatten that into_flat returns holds at least one rule, and its
\* expecting is defined and is the expecting of each member.
C9_NeverEmpty ==
    flat.tag = "Ok"
    => /\ Len(flat.rules) >= 1
       /\ FlattenExpecting(flat.rules).tag = "Ok"
       /\ \A i \in 1..Len(flat.rules) :
            FlattenExpecting(flat.rules).kinds = ModeExpecting(flat.rules[i])

\* the kinds of a list of ValueKinds
KindsOf(s) == {s[i] : i \in 1..Len(s)}

\* C10: on a registry of built-in rules, commit on a registered field fails
\* with InvalidKind exactly when the value's kind is not in items() for the
\* field, and returns a Commit when it is.
C10_ItemsAgree ==
    (last.op = "commit" /\ last.key \in DOMAIN registry.map)
    => LET accepted == KindsOf(ItemsOf(registry.map)[last.key].kinds)
       IN  /\ ItemsOf(registry.map)[last.key].tag = "Ok"
           /\ (last.result.tag = "Err") <=> (last.value.kind \notin accepted)
           /\ last.value.kind \in accepted
              => last.result.tag = "Ok" /\ last.result.some

\* a Literal whose text reads as a number is refused by a field of Betweens,
\* whose items() entry lists Number alone
C10_Witness ==
    /\ last.op = "commit"
    /\ last.key \in DOMAIN registry.map
    /\ ItemsOf(registry.map)[last.key].kinds = <<Number>>
    /\ last.value = FromStr(<<"3">>)
    /\ last.result.tag = "Err"

====
